---- MODULE Spec2Model ----
(***************************************************************************)
(* Model of backend.py of LiveMeetingSummarizer.                           *)
(*                                                                         *)
(*  Spec          AudioRecorder: the realtime callback (producer), the     *)
(*                foreground thread calling start(), stop() and iterating  *)
(*                the process_queue() generator (consumer).                *)
(*  SpecServices  check_and_download_model, STTEngine.transcribe_file,     *)
(*                MeetingSummarizer.generate_summary, send_email_func:     *)
(*                one call per step, inputs and the outcomes of the        *)
(*                external services drawn from small sets.                 *)
(***************************************************************************)
EXTENDS Integers, Sequences, FiniteSets

VARIABLES
    \* ---- AudioRecorder fields (backend.py 45-51)
    audio_queue,    \* self.audio_queue: FIFO of chunks
    recording,      \* self.recording
    wav_file,       \* self.wav_file: "none" (None), "open", "closed" (a closed Wave_write, still truthy)
    stream,         \* self.stream: "none" (None), "opened", "active", "closed"
    \* ---- the process_queue generator
    pc,             \* "idle" (no generator), "suspended" (created or at yield), "get", "write"
    data,           \* the generator's local `data` (NoChunk when it holds none)
    \* ---- the output file on disk
    fileData,       \* sample data after the header
    \* ---- observation of the run
    produced,       \* chunks the callback has enqueued, in order
    yielded,        \* chunks the generators have yielded, in order
    removedOpen,    \* chunks taken from the queue since the current file was opened
    streamCloses,   \* close() calls received by the stream handle self.stream refers to
    fileCloses,     \* close() calls received by the file handle self.wav_file refers to
    starts,         \* start() calls so far
    drain,          \* the current or last process_queue() call
    \* ---- the service functions
    call,           \* the last service call and its inputs
    ret,            \* what it returned
    raised,         \* the exception it raised to its caller, or "none"
    network,        \* network requests it issued
    model_dir,      \* os.path.exists(model_name)
    zip_file        \* the archive <model_name>.zip on disk: "absent", "partial", "complete"

recVars == <<audio_queue, recording, wav_file, stream, pc, data, fileData, produced,
             yielded, removedOpen, streamCloses, fileCloses, starts, drain>>
svcVars == <<call, ret, raised, network, model_dir, zip_file>>
vars == <<recVars, svcVars>>

\* ---- bounds of the model
MaxChunks == 3      \* callback invocations
MaxStarts == 2      \* start() calls
MaxCloses == 2      \* close() calls observed on one handle
MaxLen == 5         \* transcript length

NoChunk == 0

(***************************************************************************)
(* AudioRecorder                                                           *)
(***************************************************************************)

\* atCall: the queue when process_queue() was called; avail: the queue when the
\* generator's body began to run (its first next()).
NoDrain == [status |-> "none", out |-> <<>>, atCall |-> <<>>, avail |-> <<>>,
            started |-> FALSE, base |-> 0, stopped |-> FALSE, session |-> 0]

RecorderInit ==
    /\ audio_queue = <<>>
    /\ recording = FALSE
    /\ wav_file = "none"
    /\ stream = "none"
    /\ pc = "idle"
    /\ data = NoChunk
    /\ fileData = <<>>
    /\ produced = <<>>
    /\ yielded = <<>>
    /\ removedOpen = <<>>
    /\ streamCloses = 0
    /\ fileCloses = 0
    /\ starts = 0
    /\ drain = NoDrain

\* queue.Queue.put / empty / get
put(q, item) == Append(q, item)

empty_never(q) == FALSE
empty_one_left(q) == Len(q) <= 1
empty(q) == Len(q) = 0

\* Wave_write.writeframes on an open file
writeframes_dropped(f, d) == f
writeframes(f, d) == Append(f, d)

\* The foreground thread is between two statements of its own: no generator
\* is running, so it may call start(), stop(), process_queue() or next().
ForegroundFree == pc \in {"idle", "suspended"}

\* start() "must not be called twice without an intervening stop()".
StartAllowed == ForegroundFree /\ recording = FALSE

\* _callback: the status flag is only printed; the chunk is enqueued either way.
Callback ==
    /\ stream = "active"
    /\ Len(produced) < MaxChunks
    /\ audio_queue' = put(audio_queue, Len(produced) + 1)
    /\ produced' = Append(produced, Len(produced) + 1)
    /\ UNCHANGED <<recording, wav_file, stream, pc, data, fileData, yielded, removedOpen,
                   streamCloses, fileCloses, starts, drain, svcVars>>

StartOutcomes == {"ok", "file_error", "device_error", "start_error"}

\* start(): wave.open may raise (file_error), sd.RawInputStream(...) may raise
\* (device_error), stream.start() may raise (start_error).
Start ==
    /\ StartAllowed
    /\ starts < MaxStarts
    /\ starts' = starts + 1
    /\ recording' = TRUE
    /\ \E outcome \in StartOutcomes :
        /\ IF outcome = "file_error"
              THEN UNCHANGED <<wav_file, fileCloses, fileData, removedOpen>>
              ELSE /\ wav_file' = "open"
                   /\ fileCloses' = 0
                   /\ fileData' = <<>>
                   /\ removedOpen' = <<>>
        /\ IF outcome \in {"file_error", "device_error"}
              THEN UNCHANGED <<stream, streamCloses>>
              ELSE /\ stream' = IF outcome = "ok" THEN "active" ELSE "opened"
                   /\ streamCloses' = 0
    /\ UNCHANGED <<audio_queue, pc, data, produced, yielded, drain, svcVars>>

\* stop()
Stop ==
    /\ ForegroundFree
    /\ streamCloses < MaxCloses
    /\ fileCloses < MaxCloses
    /\ recording' = FALSE
    /\ IF stream # "none"
          THEN stream' = "closed" /\ streamCloses' = streamCloses + 1
          ELSE UNCHANGED <<stream, streamCloses>>
    /\ IF wav_file # "none"
          THEN wav_file' = "closed" /\ fileCloses' = fileCloses + 1
          ELSE UNCHANGED <<wav_file, fileCloses>>
    /\ UNCHANGED <<audio_queue, pc, data, fileData, produced, yielded, removedOpen,
                   starts, drain, svcVars>>

\* process_queue(): creates the generator; no statement of its body runs yet.
ProcessQueue ==
    /\ pc = "idle"
    /\ pc' = "suspended"
    /\ drain' = [status |-> "running", out |-> <<>>, atCall |-> audio_queue,
                 avail |-> <<>>, started |-> FALSE,
                 base |-> Len(produced) - Len(audio_queue),
                 stopped |-> (recording = FALSE /\ wav_file = "closed"),
                 session |-> starts]
    /\ UNCHANGED <<audio_queue, recording, wav_file, stream, data, fileData, produced,
                   yielded, removedOpen, streamCloses, fileCloses, starts, svcVars>>

\* next(gen): run to the loop test `while not self.audio_queue.empty()`.
Resume ==
    /\ pc = "suspended"
    /\ LET d == IF drain.started THEN drain
                 ELSE [drain EXCEPT !.started = TRUE, !.avail = audio_queue]
       IN  IF empty(audio_queue)
              THEN pc' = "idle" /\ drain' = [d EXCEPT !.status = "exhausted"]
              ELSE pc' = "get" /\ drain' = d
    /\ UNCHANGED <<audio_queue, recording, wav_file, stream, data, fileData, produced,
                   yielded, removedOpen, streamCloses, fileCloses, starts, svcVars>>

\* data = self.audio_queue.get(): blocks while the queue is empty.
Get ==
    /\ pc = "get"
    /\ Len(audio_queue) > 0
    /\ data' = Head(audio_queue)
    /\ audio_queue' = Tail(audio_queue)
    /\ removedOpen' = Append(removedOpen, Head(audio_queue))
    /\ pc' = "write"
    /\ UNCHANGED <<recording, wav_file, stream, fileData, produced, yielded,
                   streamCloses, fileCloses, starts, drain, svcVars>>

\* if self.wav_file: self.wav_file.writeframes(data); yield data
\* writeframes on a closed Wave_write raises AttributeError out of the generator.
WriteYield ==
    /\ pc = "write"
    /\ data' = NoChunk
    /\ IF wav_file = "closed"
          THEN /\ pc' = "idle"
               /\ drain' = [drain EXCEPT !.status = "raised"]
               /\ UNCHANGED <<fileData, yielded>>
          ELSE /\ fileData' = IF wav_file = "open" THEN writeframes(fileData, data)
                                                   ELSE fileData
               /\ yielded' = Append(yielded, data)
               /\ drain' = [drain EXCEPT !.out = Append(@, data)]
               /\ pc' = "suspended"
    /\ UNCHANGED <<audio_queue, recording, wav_file, stream, produced, removedOpen,
                   streamCloses, fileCloses, starts, svcVars>>

\* The caller drops the generator without iterating it to the end.
Abandon ==
    /\ pc = "suspended"
    /\ pc' = "idle"
    /\ drain' = [drain EXCEPT !.status = "abandoned"]
    /\ UNCHANGED <<audio_queue, recording, wav_file, stream, data, fileData, produced,
                   yielded, removedOpen, streamCloses, fileCloses, starts, svcVars>>

(***************************************************************************)
(* Service functions                                                       *)
(***************************************************************************)

NoReturn == [kind |-> "none", detail |-> ""]

ServicesIdle ==
    /\ call = [fn |-> "none"]
    /\ ret = NoReturn
    /\ raised = "none"
    /\ network = 0
    /\ model_dir = FALSE
    /\ zip_file = "absent"

\* ---- check_and_download_model

StatusCodes == {200, 203, 404, 500}
GetOutcomes == {"response", "connection_error"}
ContentLengths == {"missing", "number", "garbage"}
\* what the server streams: a good archive, an archive with a corrupt member,
\* something that is no archive, or a body cut off by a network error
Bodies == {"zip", "bad_member", "not_zip", "truncated"}

ModelPath == [kind |-> "path", detail |-> "model_name"]

CheckAndDownloadModel ==
    \E get \in GetOutcomes, status \in StatusCodes, length \in ContentLengths,
       body \in Bodies, partly \in BOOLEAN :
        /\ call' = [fn |-> "check_and_download_model", existed |-> model_dir,
                    get |-> get, status |-> status, length |-> length, body |-> body]
        /\ IF model_dir
              THEN \* line 19 false: straight to `return model_name`
                   /\ ret' = ModelPath /\ raised' = "none" /\ network' = 0
                   /\ UNCHANGED <<model_dir, zip_file>>
           ELSE IF get = "connection_error"
              THEN \* requests.get raises
                   /\ ret' = NoReturn /\ raised' = "ConnectionError" /\ network' = 1
                   /\ UNCHANGED <<model_dir, zip_file>>
           ELSE IF length = "garbage"
              THEN \* int(...) raises
                   /\ ret' = NoReturn /\ raised' = "ValueError" /\ network' = 1
                   /\ UNCHANGED <<model_dir, zip_file>>
           ELSE IF body = "truncated"
              THEN \* iter_content raises inside the with block
                   /\ ret' = NoReturn /\ raised' = "ChunkedEncodingError" /\ network' = 1
                   /\ zip_file' = "partial"
                   /\ UNCHANGED model_dir
           ELSE IF body = "not_zip"
              THEN \* ZipFile(...) raises
                   /\ ret' = NoReturn /\ raised' = "BadZipFile" /\ network' = 1
                   /\ zip_file' = "not_zip"
                   /\ UNCHANGED model_dir
           ELSE IF body = "bad_member"
              THEN \* extractall raises; members before the bad one are extracted
                   /\ ret' = NoReturn /\ raised' = "BadZipFile" /\ network' = 1
                   /\ zip_file' = "bad_member"
                   /\ model_dir' = partly
              ELSE \* extracted, archive removed; the status code is never read
                   /\ ret' = ModelPath /\ raised' = "none" /\ network' = 1
                   /\ zip_file' = "absent"
                   /\ model_dir' = TRUE
        /\ UNCHANGED recVars

\* ---- the Groq clients

ApiOutcomes == {"ok", "connection_error", "api_error", "malformed"}

KeyMissing == [kind |-> "error", detail |-> "Error: Groq API Key missing."]
TooShortMsg == [kind |-> "error", detail |-> "Transcript too short to summarize."]

\* what the try block of a client call returns for each outcome of the API
ApiResult(api, prefix) ==
    CASE api = "ok" -> [kind |-> "text", detail |-> "response text"]
      [] api = "connection_error" -> [kind |-> "error", detail |-> prefix \o "APIConnectionError"]
      [] api = "api_error" -> [kind |-> "error", detail |-> prefix \o "APIStatusError"]
      [] api = "malformed" -> [kind |-> "error", detail |-> prefix \o "AttributeError"]

TranscribeFile ==
    \E client \in BOOLEAN, readable \in BOOLEAN, api \in ApiOutcomes :
        /\ call' = [fn |-> "transcribe_file", client |-> client, readable |-> readable,
                    api |-> api]
        /\ raised' = "none"
        /\ IF ~client
              THEN ret' = KeyMissing /\ network' = 0
           ELSE IF ~readable
              THEN /\ ret' = [kind |-> "error", detail |-> "Transcription Error: FileNotFoundError"]
                   /\ network' = 0
              ELSE ret' = ApiResult(api, "Transcription Error: ") /\ network' = 1
        /\ UNCHANGED <<model_dir, zip_file, recVars>>

MinTranscriptLen == 5

Chars == {"h", "i"}
Texts == UNION {[1..n -> Chars] : n \in 0..MaxLen}
Transcripts == {[isNone |-> TRUE, text |-> <<>>]} \cup {[isNone |-> FALSE, text |-> t] : t \in Texts}

\* `not transcript or len(transcript) < 5`
TooShort_falsy_only(transcript) == transcript.isNone \/ Len(transcript.text) = 0
TooShort(transcript) ==
    \/ transcript.isNone \/ Len(transcript.text) = 0
    \/ Len(transcript.text) < MinTranscriptLen

GenerateSummary ==
    \E client \in BOOLEAN, transcript \in Transcripts, api \in ApiOutcomes :
        /\ call' = [fn |-> "generate_summary", client |-> client,
                    transcript |-> transcript, api |-> api]
        /\ raised' = "none"
        /\ IF ~client
              THEN ret' = KeyMissing /\ network' = 0
           ELSE IF TooShort(transcript)
              THEN ret' = TooShortMsg /\ network' = 0
              ELSE ret' = ApiResult(api, "Groq Error: ") /\ network' = 1
        /\ UNCHANGED <<model_dir, zip_file, recVars>>

\* ---- send_email_func

\* body: a string, None, or a string MIMEText cannot encode (a lone surrogate)
MailBodies == {"text", "None", "lone_surrogate"}
SmtpFailures == {"none", "connect", "starttls", "login", "sendmail", "quit"}

\* lines 163-167, outside the try block
BuildMessage(body) ==
    CASE body = "text" -> "none"
      [] body = "None" -> "AttributeError"
      [] body = "lone_surrogate" -> "UnicodeEncodeError"

SendEmail ==
    \E body \in MailBodies, failure \in SmtpFailures :
        /\ call' = [fn |-> "send_email_func", body |-> body, failure |-> failure]
        /\ IF BuildMessage(body) # "none"
              THEN ret' = NoReturn /\ raised' = BuildMessage(body) /\ network' = 0
              ELSE /\ raised' = "none"
                   /\ network' = 1
                   /\ ret' = IF failure = "none"
                                THEN [kind |-> "text", detail |-> "Email sent!"]
                                ELSE [kind |-> "error", detail |-> "Email Error: " \o failure]
        /\ UNCHANGED <<model_dir, zip_file, recVars>>

Init == RecorderInit /\ ServicesIdle

Next ==
    \/ Callback
    \/ Start
    \/ Stop
    \/ ProcessQueue
    \/ Resume
    \/ Get
    \/ WriteYield
    \/ Abandon

Spec == Init /\ [][Next]_vars

InitServices ==
    /\ RecorderInit
    /\ call = [fn |-> "none"]
    /\ ret = NoReturn
    /\ raised = "none"
    /\ network = 0
    /\ model_dir \in BOOLEAN
    /\ zip_file = "absent"

NextServices ==
    \/ CheckAndDownloadModel
    \/ TranscribeFile
    \/ GenerateSummary
    \/ SendEmail

SpecServices == InitServices /\ [][NextServices]_vars

(***************************************************************************)
(* Claims about AudioRecorder, checked under Spec                          *)
(***************************************************************************)

FileOpen == wav_file = "open"
StreamOpen == stream \in {"opened", "active"}
Stopped == recording = FALSE /\ wav_file = "closed"

\* C1: once every chunk the callback delivered during the session has been
\* taken by drains that ran to their end, the drains have yielded exactly
\* C_1..C_N in production order and the file's sample data is C_1..C_N.
C1_FullDrainDeliversAll ==
    (starts <= 1 /\ pc = "idle" /\ Len(audio_queue) = 0)
        => (yielded = produced /\ fileData = produced)

\* C2: a drain called after stop() has returned, iterated to its end, ends
\* without error, has yielded every chunk that was queued, in order, and
\* leaves the queue empty.
C2_FinalDrainFlushes ==
    (drain.stopped /\ drain.session = starts /\ Stopped
        /\ drain.status \in {"exhausted", "raised"})
        => (drain.status = "exhausted" /\ drain.out = drain.atCall
                /\ Len(audio_queue) = 0)

\* C3: between operations the file handle and the stream handle are both
\* open or both closed.
C3_HandlesPaired == FileOpen <=> StreamOpen

\* C4: no handle that start() opened is stopped or closed more than once.
C4_NoDoubleClose == streamCloses <= 1 /\ fileCloses <= 1

\* C5 as stated: a drain's output is made only of chunks that were enqueued
\* when the drain began; chunks enqueued while it is in progress are not part
\* of it.
C5_OnlyChunksAtCall ==
    \A i \in 1..Len(drain.out) :
        \E j \in 1..Len(drain.avail) : drain.avail[j] = drain.out[i]

\* C5 as amended: a drain that runs to its end ends on finding the queue
\* empty, and has then yielded, in order, the chunks enqueued at the time of
\* the call followed by every chunk the callback enqueued since.
C5_DrainsUntilObservedEmpty ==
    [][(pc = "suspended" /\ pc' = "idle" /\ drain'.status = "exhausted")
        => (/\ Len(audio_queue) = 0
            /\ drain.out = SubSeq(produced, drain.base + 1, Len(produced)))]_vars

C5_Witness ==
    /\ drain.status = "exhausted"
    /\ Len(drain.out) > Len(drain.avail)
    /\ Len(drain.avail) > 0

\* C9: every dequeue process_queue performs happens on a non-empty queue, so
\* the check-then-get sequence never waits.
C9_GetNeverWaits == pc = "get" => Len(audio_queue) > 0

C9_Witness == pc = "get" /\ drain.started /\ Len(drain.out) + Len(audio_queue) > Len(drain.avail)

\* C10: while the output file is open and the caller holds control, the file
\* holds exactly the chunks removed from the queue since it was opened, in
\* order, and the chunks not yet pulled are still in the queue.
C10_WrittenBeforeYielded ==
    (FileOpen /\ ForegroundFree)
        => (/\ fileData = removedOpen
            /\ starts = 1 => produced = fileData \o audio_queue)

C10_Witness ==
    /\ FileOpen
    /\ pc = "idle"
    /\ drain.status = "abandoned"
    /\ Len(fileData) > 0
    /\ Len(audio_queue) > 0

(***************************************************************************)
(* Claims about the service functions, checked under SpecServices          *)
(***************************************************************************)

\* C6: generate_summary returns the missing-credentials string without a
\* network call when it has no client, and, with a client, the "too short"
\* string without a network call for every transcript shorter than 5
\* characters, the empty one included.
C6_SummaryGuards ==
    call.fn = "generate_summary" =>
        /\ ~call.client => (ret = KeyMissing /\ network = 0 /\ raised = "none")
        /\ (call.client /\ (call.transcript.isNone \/ Len(call.transcript.text) < 5))
               => (ret = TooShortMsg /\ network = 0 /\ raised = "none")

C6_Witness ==
    /\ call.fn = "generate_summary"
    /\ call.client
    /\ call.transcript = [isNone |-> FALSE, text |-> <<"h", "i">>]
    /\ ret = TooShortMsg
    /\ network = 0

\* C7: transcribe_file, generate_summary and send_email_func never raise to
\* their caller: each call returns a string.
C7_ServicesNeverRaise ==
    call.fn \in {"transcribe_file", "generate_summary", "send_email_func"}
        => (raised = "none" /\ ret.kind \in {"text", "error"})

\* C8: with the model directory absent, a network error, a non-200 response
\* or a corrupt archive makes check_and_download_model end in an error, never
\* returning the path, after a single download attempt.
C8_FailedDownloadEndsInError ==
    (/\ call.fn = "check_and_download_model"
     /\ ~call.existed
     /\ \/ call.get = "connection_error"
        \/ call.status # 200
        \/ call.body # "zip")
        => (raised # "none" /\ ret = NoReturn /\ network <= 1)

====
